---- MODULE Spec2Model ----
(***************************************************************************)
(* Model of the embedding adapters:                                        *)
(*   langchain/embeddings/sagemaker_endpoint.py  SagemakerEndpointEmbeddings *)
(*   langchain/embeddings/tensorflow_hub.py      TensorflowHubEmbeddings   *)
(*   tests/integration_tests/vectorstores/fake_embeddings.py FakeEmbeddings *)
(*                                                                         *)
(* One behaviour is one call on a constructed embedder.  The Sagemaker     *)
(* call is split at its three external calls (transform_input,             *)
(* invoke_endpoint, transform_output), each of which may raise; the other  *)
(* two embedders make at most one external call and are one step each.     *)
(*                                                                         *)
(* Python values whose type matters are tagged: a str is                   *)
(* [ty |-> "str"], a list [ty |-> "list"], a vector of floats              *)
(* [ty |-> "vector"], so that a list of vectors and a list of lists of     *)
(* vectors are different values.  A text is a sequence of characters.      *)
(* The floats of FakeEmbeddings are whole numbers and are written as       *)
(* integers.                                                               *)
(***************************************************************************)
EXTENDS Integers, Sequences, FiniteSets, TLC

VARIABLES impl, op, texts, text, chunk_size, pc, _chunk_size, rng, k,
          local_texts, body, response, results, returned, error, log

vars == <<impl, op, texts, text, chunk_size, pc, _chunk_size, rng, k,
          local_texts, body, response, results, returned, error, log>>

----------------------------------------------------------------------------
(* Bounds of the model and program constants *)

\* longest batch of texts a caller passes
MaxTexts == 5
\* largest explicit chunk_size a caller passes (besides the default)
MaxChunkSize == 3
\* the most negative chunk_size a caller passes is -MaxNegChunk
MaxNegChunk == 2
\* embed_documents(self, texts, chunk_size: int = 64)
DefaultChunkSize == 64
\* [float(1.0)] * 9
NumOnes == 9

\* the texts a caller may pass: without newline, with one, with several
TextSet == { <<"a">>, <<"b", "\n", "c">>, <<"\n", "d", "\n">> }

RECURSIVE SeqsUpTo(_, _)
SeqsUpTo(S, n) ==
    IF n = 0 THEN { <<>> }
    ELSE LET shorter == SeqsUpTo(S, n - 1)
         IN  shorter \cup { Append(s, x) : s \in { t \in shorter : Len(t) = n - 1 }, x \in S }

TextLists == SeqsUpTo(TextSet, MaxTexts)

ChunkSizes == ((0 - MaxNegChunk) .. MaxChunkSize) \cup { DefaultChunkSize }

----------------------------------------------------------------------------
(* Python values *)

PyStr(s) == [ty |-> "str", val |-> s]
PyList(s) == [ty |-> "list", val |-> s]
Vector(s) == [ty |-> "vector", val |-> s]

\* a raised exception: its class, its message, and the exception it wraps
Exception(type, msg, cause) == [type |-> type, msg |-> msg, cause |-> cause]

\* str.replace("\n", " ") as a buggy variant: only the first newline is replaced
Replace_FirstOnly(x) ==
    [j \in 1 .. Len(x) |->
        IF x[j] = "\n" /\ \A m \in 1 .. (j - 1) : x[m] # "\n" THEN " " ELSE x[j]]

\* x.replace("\n", " ")
Replace(x) == [j \in 1 .. Len(x) |-> IF x[j] = "\n" THEN " " ELSE x[j]]

\* list(map(lambda x: x.replace("\n", " "), texts))
MapReplace(ts) == [j \in 1 .. Len(ts) |-> Replace(ts[j])]

\* range(start, stop, step) as a buggy variant: the step is ignored
PyRange_NoStep(start, stop, step) ==
    IF stop > start THEN [j \in 1 .. (stop - start) |-> start + (j - 1)] ELSE <<>>

\* range(start, stop, step), step # 0, as the sequence of its values
PyRange(start, stop, step) ==
    LET n == IF step > 0 /\ stop > start
               THEN (stop - start + step - 1) \div step
             ELSE IF step < 0 /\ stop < start
               THEN (start - stop + (0 - step) - 1) \div (0 - step)
             ELSE 0
    IN  [j \in 1 .. n |-> start + (j - 1) * step]

\* s[lo:hi] of a list, lo and hi as Python clamps them
PySlice(s, lo, hi) ==
    LET clamp(x) == IF x < 0 THEN (IF x + Len(s) < 0 THEN 0 ELSE x + Len(s))
                    ELSE IF x > Len(s) THEN Len(s) ELSE x
        a == clamp(lo)
        b == clamp(hi)
    IN  IF b > a THEN [j \in 1 .. (b - a) |-> s[a + j]] ELSE <<>>

----------------------------------------------------------------------------
(* External collaborators: the content handler, the endpoint, the model.   *)
(* They are not code of this repository; they are given the least          *)
(* behaviour the adapters rely on: an encoder/decoder pair and a model     *)
(* that returns one vector per text, a deterministic function of the text  *)
(* it is given.                                                            *)

Count(t, c) == Cardinality({ j \in 1 .. Len(t) : t[j] = c })

\* the embedding the endpoint or the hub model computes for one text
ModelEmbedding(t) == Vector(<<Len(t), Count(t, " "), Count(t, "\n"), Count(t, "a")>>)

\* content_handler.transform_input(texts, _model_kwargs) -> bytes
transform_input(ts) == [ty |-> "bytes", val |-> ts]

\* client.invoke_endpoint(Body=body, ...) -> {"Body": stream}
invoke_endpoint(b) ==
    [Body |-> [ty |-> "stream",
               val |-> [j \in 1 .. Len(b.val) |-> ModelEmbedding(b.val[j])]]]

\* content_handler.transform_output(response["Body"]): one vector per text
transform_output(stream) == PyList(stream.val)

\* self.embed(x).numpy(): one row per text; a scalar string gives one row
embed(x) ==
    IF x.ty = "str" THEN <<ModelEmbedding(x.val)>>
    ELSE [j \in 1 .. Len(x.val) |-> ModelEmbedding(x.val[j])]

\* the exceptions the collaborators raise
InputError == Exception("TypeError", "transform_input failed", "")
EndpointError == Exception("ClientError", "endpoint failed", "")
OutputError == Exception("JSONDecodeError", "transform_output failed", "")
ModelError == Exception("InvalidArgumentError", "model failed", "")

----------------------------------------------------------------------------
(* State after construction: no call made yet *)

Init ==
    /\ impl = "none"
    /\ op = "none"
    /\ texts = <<>>
    /\ text = <<>>
    /\ chunk_size = DefaultChunkSize
    /\ pc = "idle"
    /\ _chunk_size = 0
    /\ rng = <<>>
    /\ k = 1
    /\ local_texts = <<>>
    /\ body = <<>>
    /\ response = <<>>
    /\ results = <<>>
    /\ returned = <<>>
    /\ error = <<>>
    /\ log = <<>>

\* one external call: which, for which window, with what, and whether it raised
Call(fn, arg, raised) == [fn |-> fn, window |-> k, arg |-> arg, raised |-> raised]

----------------------------------------------------------------------------
(* SagemakerEndpointEmbeddings *)

\* range(0, len(texts), 0) raises before the loop body runs
RangeError == Exception("ValueError", "range() arg 3 must not be zero", "")

\* _chunk_size = len(texts) if chunk_size > len(texts) else chunk_size
EffectiveChunkSize(cs, n) == IF cs > n THEN n ELSE cs

\* embed_documents up to the first external call: the clamp, the range, and
\* the return of the empty results when the range is empty
Sagemaker_embed_documents ==
    /\ pc = "idle"
    /\ \E ts \in TextLists, cs \in ChunkSizes :
         LET ecs == EffectiveChunkSize(cs, Len(ts))
             r == IF ecs = 0 THEN <<>> ELSE PyRange(0, Len(ts), ecs)
         IN  /\ impl' = "sagemaker"
             /\ op' = "embed_documents"
             /\ texts' = ts
             /\ chunk_size' = cs
             /\ results' = <<>>
             /\ _chunk_size' = ecs
             /\ rng' = r
             /\ k' = 1
             /\ IF ecs = 0
                  THEN pc' = "raised" /\ error' = <<RangeError>> /\ returned' = returned
                ELSE IF r = <<>>
                  THEN pc' = "done" /\ returned' = <<PyList(<<>>)>> /\ error' = error
                ELSE pc' = "transform_input" /\ UNCHANGED <<returned, error>>
    /\ UNCHANGED <<text, local_texts, body, response, log>>

\* _embed_query up to the first external call: _embedding_func([text])
Sagemaker_embed_query ==
    /\ pc = "idle"
    /\ \E t \in TextSet :
         /\ impl' = "sagemaker"
         /\ op' = "embed_query"
         /\ text' = t
    /\ pc' = "transform_input"
    /\ UNCHANGED <<texts, chunk_size, _chunk_size, rng, k, local_texts, body,
                   response, results, returned, error, log>>

\* the argument of the current call of _embedding_func
Window ==
    IF op = "embed_documents"
      THEN PySlice(texts, rng[k], rng[k] + _chunk_size)
      ELSE <<text>>

\* _embedding_func returned v: append and loop on, or hand v to the caller
EmbeddingFuncReturns(v) ==
    IF op = "embed_documents"
      THEN /\ results' = Append(results, v)
           /\ k' = k + 1
           /\ IF k + 1 > Len(rng)
                THEN pc' = "done" /\ returned' = <<PyList(Append(results, v))>>
                ELSE pc' = "transform_input" /\ returned' = returned
      ELSE /\ pc' = "done"
           /\ returned' = <<v>>
           /\ UNCHANGED <<results, k>>

\* the newline replacement and content_handler.transform_input
Sagemaker_transform_input ==
    /\ pc = "transform_input"
    /\ local_texts' = MapReplace(Window)
    /\ \/ /\ log' = Append(log, Call("transform_input", PyList(local_texts'), FALSE))
          /\ body' = transform_input(local_texts')
          /\ pc' = "invoke_endpoint"
          /\ error' = error
       \/ /\ log' = Append(log, Call("transform_input", PyList(local_texts'), TRUE))
          /\ pc' = "raised"
          /\ error' = <<InputError>>
          /\ body' = body
    /\ UNCHANGED <<impl, op, texts, text, chunk_size, _chunk_size, rng, k,
                   response, results, returned>>

\* except Exception as e: re-raised unchanged (buggy variant)
WrapEndpointError_Reraise(e) == e

\* except Exception as e: raise ValueError(f"Error raised by inference endpoint: {e}")
WrapEndpointError(e) == Exception("ValueError", "Error raised by inference endpoint", e.msg)

\* invoke_endpoint answered, but the raw body is used undecoded (buggy variant)
InvokeOk_SkipDecode ==
    /\ log' = Append(log, Call("invoke_endpoint", body, FALSE))
    /\ response' = invoke_endpoint(body)
    /\ EmbeddingFuncReturns(PyList(invoke_endpoint(body).Body.val))
    /\ error' = error

\* client.invoke_endpoint answered
InvokeOk ==
    /\ log' = Append(log, Call("invoke_endpoint", body, FALSE))
    /\ response' = invoke_endpoint(body)
    /\ pc' = "transform_output"
    /\ UNCHANGED <<results, k, returned, error>>

\* client.invoke_endpoint raised and the window is skipped (buggy variant)
InvokeRaise_Swallow ==
    /\ log' = Append(log, Call("invoke_endpoint", body, TRUE))
    /\ k' = k + 1
    /\ IF op = "embed_documents" /\ k + 1 <= Len(rng)
         THEN pc' = "transform_input" /\ returned' = returned
         ELSE pc' = "done" /\ returned' = <<PyList(results)>>
    /\ UNCHANGED <<response, results, error>>

\* client.invoke_endpoint raised: the except clause wraps and raises
InvokeRaise ==
    /\ log' = Append(log, Call("invoke_endpoint", body, TRUE))
    /\ pc' = "raised"
    /\ error' = <<WrapEndpointError(EndpointError)>>
    /\ UNCHANGED <<response, results, k, returned>>

\* try: response = self.client.invoke_endpoint(...) except ...
Sagemaker_invoke_endpoint ==
    /\ pc = "invoke_endpoint"
    /\ \/ InvokeOk
       \/ InvokeRaise
    /\ UNCHANGED <<impl, op, texts, text, chunk_size, _chunk_size, rng,
                   local_texts, body>>

\* return self.content_handler.transform_output(response["Body"]), then the
\* caller's results.append(response) and the next turn of the loop
Sagemaker_transform_output ==
    /\ pc = "transform_output"
    /\ \/ /\ log' = Append(log, Call("transform_output", response.Body, FALSE))
          /\ EmbeddingFuncReturns(transform_output(response.Body))
          /\ error' = error
       \/ /\ log' = Append(log, Call("transform_output", response.Body, TRUE))
          /\ pc' = "raised"
          /\ error' = <<OutputError>>
          /\ UNCHANGED <<results, k, returned>>
    /\ UNCHANGED <<impl, op, texts, text, chunk_size, _chunk_size, rng,
                   local_texts, body, response>>

----------------------------------------------------------------------------
(* TensorflowHubEmbeddings *)

\* embed_documents: replace newlines, self.embed(texts).numpy(), tolist()
TensorflowHub_embed_documents ==
    /\ pc = "idle"
    /\ \E ts \in TextLists :
         /\ impl' = "tensorflow_hub"
         /\ op' = "embed_documents"
         /\ texts' = ts
         /\ local_texts' = MapReplace(ts)
    /\ \/ /\ log' = Append(log, Call("embed", PyList(local_texts'), FALSE))
          /\ pc' = "done"
          /\ returned' = <<PyList(embed(PyList(local_texts')))>>
          /\ error' = error
       \/ /\ log' = Append(log, Call("embed", PyList(local_texts'), TRUE))
          /\ pc' = "raised"
          /\ error' = <<ModelError>>
          /\ returned' = returned
    /\ UNCHANGED <<text, chunk_size, _chunk_size, rng, k, body, response, results>>

\* _embed_query: text.replace, self.embed(text).numpy()[0], tolist()
TensorflowHub_embed_query ==
    /\ pc = "idle"
    /\ \E t \in TextSet :
         /\ impl' = "tensorflow_hub"
         /\ op' = "embed_query"
         /\ text' = t
         /\ local_texts' = <<Replace(t)>>
    /\ \/ /\ log' = Append(log, Call("embed", PyStr(local_texts'[1]), FALSE))
          /\ pc' = "done"
          /\ returned' = <<embed(PyStr(local_texts'[1]))[1]>>
          /\ error' = error
       \/ /\ log' = Append(log, Call("embed", PyStr(local_texts'[1]), TRUE))
          /\ pc' = "raised"
          /\ error' = <<ModelError>>
          /\ returned' = returned
    /\ UNCHANGED <<texts, chunk_size, _chunk_size, rng, k, body, response, results>>

----------------------------------------------------------------------------
(* FakeEmbeddings *)

\* [float(1.0)] * 9 + [float(i)] with the index counted from one (buggy variant)
FakeDocVector_OneBased(i) == Vector([j \in 1 .. NumOnes |-> 1] \o <<i + 1>>)

\* [float(1.0)] * 9 + [float(i)]
FakeDocVector(i) == Vector([j \in 1 .. NumOnes |-> 1] \o <<i>>)

\* [float(1.0)] * 9 + [float(0.0)]
FakeQueryVector == Vector([j \in 1 .. NumOnes |-> 1] \o <<0>>)

\* [... for i in range(len(texts))]
FakeEmbedDocuments(ts) == PyList([j \in 1 .. Len(ts) |-> FakeDocVector(j - 1)])

Fake_embed_documents ==
    /\ pc = "idle"
    /\ \E ts \in TextLists :
         /\ impl' = "fake"
         /\ op' = "embed_documents"
         /\ texts' = ts
         /\ returned' = <<FakeEmbedDocuments(ts)>>
    /\ pc' = "done"
    /\ UNCHANGED <<text, chunk_size, _chunk_size, rng, k, local_texts, body,
                   response, results, error, log>>

Fake_embed_query ==
    /\ pc = "idle"
    /\ \E t \in TextSet :
         /\ impl' = "fake"
         /\ op' = "embed_query"
         /\ text' = t
    /\ returned' = <<FakeQueryVector>>
    /\ pc' = "done"
    /\ UNCHANGED <<texts, chunk_size, _chunk_size, rng, k, local_texts, body,
                   response, results, error, log>>

----------------------------------------------------------------------------

Next ==
    \/ Sagemaker_embed_documents
    \/ Sagemaker_embed_query
    \/ Sagemaker_transform_input
    \/ Sagemaker_invoke_endpoint
    \/ Sagemaker_transform_output
    \/ TensorflowHub_embed_documents
    \/ TensorflowHub_embed_query
    \/ Fake_embed_documents
    \/ Fake_embed_query

Spec == Init /\ [][Next]_vars

----------------------------------------------------------------------------
(* Vocabulary of the properties *)

N == Len(texts)

Terminal == pc \in {"done", "raised"}

\* the external calls of one kind, in the order they were made
Calls(fn) == SelectSeq(log, LAMBDA c : c.fn = fn)

NoNewline(t) == \A j \in 1 .. Len(t) : t[j] # "\n"

\* t is x with every newline replaced by one space
IsNormalOf(t, x) ==
    /\ Len(t) = Len(x)
    /\ \A j \in 1 .. Len(x) : t[j] = (IF x[j] = "\n" THEN " " ELSE x[j])

\* the vector the backend computes for the caller's text x
VectorOf(x) == ModelEmbedding([j \in 1 .. Len(x) |-> IF x[j] = "\n" THEN " " ELSE x[j]])

\* the texts an external call was handed
Handed(c) == IF c.arg.ty = "str" THEN <<c.arg.val>> ELSE c.arg.val

SagemakerDocuments == impl = "sagemaker" /\ op = "embed_documents"

WrappedMessage == "Error raised by inference endpoint"

----------------------------------------------------------------------------
(* C1: embed_documents on N >= 1 texts (Sagemaker with chunk_size >= 1)    *)
(* returns a flat list of exactly N vectors, element i the vector of       *)
(* input text i.                                                           *)
C1_FlatOnePerText ==
    (/\ pc = "done"
     /\ op = "embed_documents"
     /\ N >= 1
     /\ (impl = "sagemaker" => chunk_size >= 1))
    => returned = <<PyList([i \in 1 .. N |->
                      IF impl = "fake" THEN FakeDocVector(i - 1) ELSE VectorOf(texts[i])])>>

(* C2: for Sagemaker embed_documents with N >= 1 and chunk_size >= 1 the   *)
(* effective chunk size is min(chunk_size, N); the windows sent to the     *)
(* endpoint are contiguous, in order, each of the effective size except a  *)
(* possibly shorter last one, and a completed call has invoked the         *)
(* endpoint exactly ceil(N / min(chunk_size, N)) times, covering every     *)
(* text once.                                                              *)
C2_Chunking ==
    (SagemakerDocuments /\ N >= 1 /\ chunk_size >= 1)
    => LET eff == IF chunk_size < N THEN chunk_size ELSE N
           count == (N + eff - 1) \div eff
           sent == Calls("invoke_endpoint")
       IN  /\ _chunk_size = eff
           /\ Len(sent) <= count
           /\ \A j \in 1 .. Len(sent) :
                LET w == sent[j].arg.val
                IN  /\ Len(w) = (IF j < count THEN eff ELSE N - (count - 1) * eff)
                    /\ \A m \in 1 .. Len(w) : IsNormalOf(w[m], texts[(j - 1) * eff + m])
           /\ pc = "done" => Len(sent) = count
           /\ (chunk_size = DefaultChunkSize /\ pc = "done") => Len(sent) = 1

C2_Witness ==
    /\ SagemakerDocuments
    /\ pc = "done"
    /\ N = 5
    /\ chunk_size = 2
    /\ [j \in 1 .. Len(Calls("invoke_endpoint")) |->
           Len(Calls("invoke_endpoint")[j].arg.val)] = <<2, 2, 1>>

(* C3: embed_documents on the empty list (Sagemaker with any               *)
(* chunk_size >= 1) returns the empty list without raising and makes no    *)
(* backend call.                                                           *)
C3_EmptyBatch ==
    (/\ Terminal
     /\ op = "embed_documents"
     /\ texts = <<>>
     /\ chunk_size >= 1)
    => /\ pc = "done"
       /\ returned = <<PyList(<<>>)>>
       /\ log = <<>>

(* C4: when the remote invocation of a window raises in Sagemaker          *)
(* embed_documents, the call raises: nothing is returned, the window is    *)
(* not retried and no later window is sent.                                *)
C4_FailurePropagation ==
    SagemakerDocuments
    => \A j \in 1 .. Len(log) :
         (log[j].fn = "invoke_endpoint" /\ log[j].raised)
         => /\ j = Len(log)
            /\ pc = "raised"
            /\ error # <<>>
            /\ returned = <<>>

C4_Witness ==
    /\ SagemakerDocuments
    /\ pc = "raised"
    /\ Len(rng) = 3
    /\ Len(log) = 5
    /\ log[5].fn = "invoke_endpoint"
    /\ log[5].window = 2
    /\ log[5].raised
    /\ Len(results) = 1
    /\ returned = <<>>

(* C5: Sagemaker embed_documents on a non-empty batch with chunk_size <= 0 *)
(* raises before any remote call and never returns a result list.          *)
C5_FailFast ==
    (SagemakerDocuments /\ N >= 1 /\ chunk_size <= 0)
    => /\ pc = "raised"
       /\ log = <<>>
       /\ returned = <<>>

(* C6, as stated: whichever stage of a per-window call fails, the caller   *)
(* gets the wrapped ValueError 'Error raised by inference endpoint'.       *)
C6_AllStagesWrapped ==
    (/\ impl = "sagemaker"
     /\ pc = "raised"
     /\ log # <<>>)
    => /\ error[1].type = "ValueError"
       /\ error[1].msg = WrappedMessage

(* C6, amended: a failure of invoke_endpoint reaches the caller as the     *)
(* wrapped ValueError 'Error raised by inference endpoint'; a failure of   *)
(* transform_input or of transform_output reaches the caller as the raw    *)
(* exception of that stage.                                                *)
C6_OnlyEndpointWrapped ==
    (/\ impl = "sagemaker"
     /\ pc = "raised"
     /\ log # <<>>)
    => LET failed == log[Len(log)]
       IN  /\ failed.raised
           /\ Len(error) = 1
           /\ failed.fn = "invoke_endpoint"
                => /\ error[1].type = "ValueError"
                   /\ error[1].msg = WrappedMessage
                   /\ error[1].cause = EndpointError.msg
           /\ failed.fn = "transform_input" => error[1] = InputError
           /\ failed.fn = "transform_output" => error[1] = OutputError

C6_Witness ==
    /\ SagemakerDocuments
    /\ pc = "raised"
    /\ Len(log) = 5
    /\ log[5].fn = "invoke_endpoint"
    /\ error[1].type = "ValueError"
    /\ error[1].msg = WrappedMessage

\* every text handed to a backend is the caller's text without its newlines
C7_Handed ==
    \A j \in 1 .. Len(log) :
      log[j].fn \in {"transform_input", "embed"}
      => LET base == IF SagemakerDocuments THEN rng[log[j].window] ELSE 0
             h == Handed(log[j])
         IN  \A m \in 1 .. Len(h) :
               /\ NoNewline(h[m])
               /\ IsNormalOf(h[m], IF op = "embed_query" THEN text ELSE texts[base + m])

(* C7: in Sagemaker and TensorflowHub, for embed_documents and embed_query *)
(* alike, every text handed to the backend has no newline and equals the   *)
(* caller's text with each newline replaced by one space, and the caller's *)
(* own texts are left unchanged.                                           *)
C7_Normalization ==
    /\ []C7_Handed
    /\ [][pc # "idle" => (texts' = texts /\ text' = text)]_vars

C7_Witness ==
    /\ impl = "tensorflow_hub"
    /\ op = "embed_documents"
    /\ pc = "done"
    /\ N = 2
    /\ texts[2] = <<"\n", "d", "\n">>
    /\ log[1].arg.val[2] = <<" ", "d", " ">>

(* C8: in Sagemaker and TensorflowHub, embed_query makes exactly one       *)
(* backend invocation, on a one-element batch holding the normalized text, *)
(* and returns the single vector of that text.                             *)
C8_QueryOneElementBatch ==
    (/\ impl \in {"sagemaker", "tensorflow_hub"}
     /\ op = "embed_query"
     /\ pc = "done")
    => LET fn == IF impl = "sagemaker" THEN "transform_input" ELSE "embed"
           remote == IF impl = "sagemaker" THEN "invoke_endpoint" ELSE "embed"
       IN  /\ Len(Calls(remote)) = 1
           /\ Len(Calls(fn)) = 1
           /\ Calls(fn)[1].arg.ty = "list"
           /\ Len(Calls(fn)[1].arg.val) = 1
           /\ IsNormalOf(Calls(fn)[1].arg.val[1], text)
           /\ returned = <<VectorOf(text)>>

(* C9: FakeEmbeddings.embed_documents on N >= 0 texts returns N vectors of *)
(* length 10, vector i being nine 1.0 followed by float(i), whatever the   *)
(* texts; embed_query returns nine 1.0 followed by 0.0, which is           *)
(* embed_documents([text])[0].                                             *)
C9_Fake ==
    (impl = "fake" /\ pc = "done")
    => /\ log = <<>>
       /\ op = "embed_documents"
            => /\ returned[1].ty = "list"
               /\ Len(returned[1].val) = N
               /\ \A i \in 1 .. N :
                    returned[1].val[i] = Vector(<<1, 1, 1, 1, 1, 1, 1, 1, 1, i - 1>>)
       /\ op = "embed_query"
            => /\ returned = <<Vector(<<1, 1, 1, 1, 1, 1, 1, 1, 1, 0>>)>>
               /\ returned[1] = FakeEmbedDocuments(<<text>>).val[1]

C9_Witness ==
    /\ impl = "fake"
    /\ op = "embed_documents"
    /\ pc = "done"
    /\ N = 3
    /\ returned[1].val[3] = Vector(<<1, 1, 1, 1, 1, 1, 1, 1, 1, 2>>)

Stage == <<"transform_input", "invoke_endpoint", "transform_output">>

(* C10: in a Sagemaker call every window gets exactly one transform_input, *)
(* then one invoke_endpoint, then one transform_output, and windows are    *)
(* handled one after the other in input order: the call for window k+1 is  *)
(* made only after transform_output of window k.                           *)
C10_Sequential ==
    impl = "sagemaker"
    => /\ \A j \in 1 .. Len(log) :
            /\ log[j].fn = Stage[((j - 1) % 3) + 1]
            /\ log[j].window = ((j - 1) \div 3) + 1
            /\ log[j].raised => j = Len(log)
       /\ pc = "transform_input" => Len(log) = 3 * (k - 1)
       /\ pc = "invoke_endpoint" => Len(log) = 3 * (k - 1) + 1
       /\ pc = "transform_output" => Len(log) = 3 * (k - 1) + 2
       /\ pc = "done" => Len(log) = 3 * (IF op = "embed_query" THEN 1 ELSE Len(rng))

C10_Witness ==
    /\ SagemakerDocuments
    /\ pc = "done"
    /\ Len(rng) = 3
    /\ Len(log) = 9
    /\ log[9].fn = "transform_output"
    /\ log[9].window = 3

====
